---- MODULE Spec2Model ----
(***************************************************************************)
(* Model of the pallet `without_instance`                                  *)
(* (pallets/without-instance/src/lib.rs): its dispatchable `toto`, its     *)
(* hook `on_initialize`, its events and errors, and its two storage items  *)
(* `MyStorageValue` and `MyStorage`, driven by a block executor that       *)
(* initializes a block, applies extrinsics one after another and           *)
(* finalizes the block.                                                    *)
(***************************************************************************)
EXTENDS Integers, Sequences, FiniteSets, TLC

(* ------------------------------ bounds -------------------------------- *)

MaxBlocks == 2
MaxTxs == 2
MaxAccount == 1
MaxBalance == 4
MaxKey == 2

(* -------------------------- program constants ------------------------- *)

\* #[pallet::weight(0)] on `toto`
TotoWeight == 0

\* ensure!(foo < 10, ...)
FooLimit == 10

\* fn MyDefault<T: Config>() -> T::Balance { 3.into() }
MyDefault == 3

(* ------------------------------ values -------------------------------- *)

\* Option<T>: <<>> is None, <<v>> is Some(v).
None == << >>
Some(v) == << v >>

Accounts == 1 .. MaxAccount

\* frame_system::RawOrigin, as `ensure_signed` reads it.
Origins ==
    {[kind |-> "Root", who |-> 0], [kind |-> "None", who |-> 0]}
        \cup {[kind |-> "Signed", who |-> a] : a \in Accounts}

Balances == 0 .. MaxBalance
Keys == 0 .. MaxKey

\* The variants of `enum Event<T>`.
Proposed(who) == [variant |-> "Proposed", data |-> who]
Spending(b) == [variant |-> "Spending", data |-> b]
Something(foo) == [variant |-> "Something", data |-> foo]

\* The only variant of `enum Error<T>`.
InsufficientProposersBalance == "InsufficientProposersBalance"

\* frame_system's error of `ensure_signed`, and the codec's decode error.
BadOrigin == "BadOrigin"
DecodeError == "DecodeError"
Ok == "Ok"

(* ---------------- the argument's encoding: Compact<u32> --------------- *)

\* Little-endian value of a byte sequence.
RECURSIVE LeValue(_)
LeValue(bytes) ==
    IF Len(bytes) = 0 THEN 0 ELSE bytes[1] + 256 * LeValue(Tail(bytes))

\* The little-endian value of `bytes` shifted right by two bits (the mode
\* bits dropped), computed without forming the unshifted value.
Shr2(bytes) == bytes[1] \div 4 + 64 * LeValue(Tail(bytes))

\* The `n` little-endian bytes of `v`.
RECURSIVE LeBytes(_, _)
LeBytes(v, n) ==
    IF n = 0 THEN << >> ELSE << v % 256 >> \o LeBytes(v \div 256, n - 1)

\* Encoding of a `#[pallet::compact] foo: u32` argument: the narrowest of the
\* four modes that holds the value, the mode in the low two bits of the
\* first byte.
CompactU32Encode(v) ==
    IF v <= 63 THEN << 4 * v >>
    ELSE IF v <= 16383 THEN LeBytes(4 * v + 1, 2)
    ELSE IF v <= 1073741823
    THEN << 4 * (v % 64) + 2 >> \o LeBytes(v \div 64, 3)
    ELSE << 3 >> \o LeBytes(v, 4)

\* A plausible slip in the decoding: the range check of each mode is left
\* out, so a value written in a wider mode than it needs is accepted.
CompactU32Decode_NoRangeCheck(payload) ==
    LET fail == [ok |-> FALSE, value |-> 0]
        good(v) == [ok |-> TRUE, value |-> v]
    IN  IF Len(payload) = 0 THEN fail
        ELSE LET prefix == payload[1]
                 mode == prefix % 4
             IN  CASE mode = 0 -> good(prefix \div 4)
                   [] mode = 1 ->
                        IF Len(payload) < 2 THEN fail
                        ELSE good(Shr2(SubSeq(payload, 1, 2)))
                   [] mode = 2 ->
                        IF Len(payload) < 4 THEN fail
                        ELSE good(Shr2(SubSeq(payload, 1, 4)))
                   [] OTHER ->
                        IF prefix \div 4 # 0 \/ Len(payload) < 5 THEN fail
                        ELSE good(LeValue(SubSeq(payload, 2, 5)))

\* Decoding of a `#[pallet::compact] foo: u32` argument: the low two bits of
\* the first byte select the mode; a value written in a wider mode than it
\* needs, a truncated input and a length past four bytes are errors.
CompactU32Decode(payload) ==
    LET fail == [ok |-> FALSE, value |-> 0]
        good(v) == [ok |-> TRUE, value |-> v]
    IN  IF Len(payload) = 0 THEN fail
        ELSE LET prefix == payload[1]
                 mode == prefix % 4
             IN  CASE mode = 0 -> good(prefix \div 4)
                   [] mode = 1 ->
                        IF Len(payload) < 2 THEN fail
                        ELSE LET x == Shr2(SubSeq(payload, 1, 2))
                             IN  IF x > 63 /\ x <= 16383 THEN good(x) ELSE fail
                   [] mode = 2 ->
                        IF Len(payload) < 4 THEN fail
                        ELSE LET x == Shr2(SubSeq(payload, 1, 4))
                             IN  IF x > 16383 /\ x <= 1073741823
                                 THEN good(x) ELSE fail
                   [] OTHER ->
                        IF prefix \div 4 # 0 \/ Len(payload) < 5 THEN fail
                        ELSE LET x == LeValue(SubSeq(payload, 2, 5))
                             IN  IF x > 1073741823 THEN good(x) ELSE fail

\* The argument payloads the model submits: 5, 9, 10, 15 (one byte), 64 (two
\* bytes), 16384 (four bytes), 2^30 (five bytes); then an empty input, a
\* truncated two-byte input, and 0 written in the two-byte mode. Values of
\* 2^31 and more are left out: the checker's integers do not hold them.
Payloads ==
    { <<20>>, <<36>>, <<40>>, <<60>>, <<1, 1>>, <<2, 0, 1, 0>>,
      <<3, 0, 0, 0, 64>>, << >>, <<1>>, <<1, 0>> }

(* ----------------------------- the pallet ----------------------------- *)

\* The pallet's view of the chain state: the block's event log and the two
\* storage items. Genesis config is not declared, so storage starts empty.
EmptyStorage == [value |-> None, map |-> << >>]

PalletState(ev, sv, sm) == [events |-> ev, value |-> sv, map |-> sm]

\* Pallet::deposit_event (generate_deposit): appends to the block's log.
deposit_event(st, event) == [st EXCEPT !.events = Append(@, event)]

\* frame_system::ensure_signed
ensure_signed(origin) ==
    IF origin.kind = "Signed"
    THEN [ok |-> TRUE, who |-> origin.who]
    ELSE [ok |-> FALSE, who |-> 0]

\* A plausible slip in `toto`: the event is deposited before the guard.
toto_EventBeforeGuard(origin, foo, st) ==
    LET who == ensure_signed(origin)
    IN  IF ~who.ok THEN [result |-> BadOrigin, st |-> st]
        ELSE IF ~(foo < FooLimit)
        THEN [result |-> InsufficientProposersBalance,
              st |-> deposit_event(st, Something(foo))]
        ELSE [result |-> Ok, st |-> deposit_event(st, Something(foo))]

\* A plausible slip in `toto`: the guard is `foo <= 10`.
toto_GuardOffByOne(origin, foo, st) ==
    LET who == ensure_signed(origin)
    IN  IF ~who.ok THEN [result |-> BadOrigin, st |-> st]
        ELSE IF ~(foo <= FooLimit)
        THEN [result |-> InsufficientProposersBalance, st |-> st]
        ELSE [result |-> Ok, st |-> deposit_event(st, Something(foo))]

\* A plausible slip in `toto`: the guard runs before the origin check.
toto_GuardBeforeOrigin(origin, foo, st) ==
    LET who == ensure_signed(origin)
    IN  IF ~(foo < FooLimit)
        THEN [result |-> InsufficientProposersBalance, st |-> st]
        ELSE IF ~who.ok THEN [result |-> BadOrigin, st |-> st]
        ELSE [result |-> Ok, st |-> deposit_event(st, Something(foo))]

\* A plausible slip in `toto`: a failing call clears the block's log.
toto_FailureClearsLog(origin, foo, st) ==
    LET who == ensure_signed(origin)
    IN  IF ~who.ok THEN [result |-> BadOrigin, st |-> st]
        ELSE IF ~(foo < FooLimit)
        THEN [result |-> InsufficientProposersBalance,
              st |-> [st EXCEPT !.events = << >>]]
        ELSE [result |-> Ok, st |-> deposit_event(st, Something(foo))]

\* A plausible slip in `toto`: the work records foo in `MyStorage`.
toto_WritesStorage(origin, foo, st) ==
    LET who == ensure_signed(origin)
    IN  IF ~who.ok THEN [result |-> BadOrigin, st |-> st]
        ELSE IF ~(foo < FooLimit)
        THEN [result |-> InsufficientProposersBalance, st |-> st]
        ELSE [result |-> Ok,
              st |-> deposit_event(
                        [st EXCEPT !.map = (foo :> foo) @@ @], Something(foo))]

\* A plausible slip in `toto`: the wrong variant is deposited.
toto_WrongVariant(origin, foo, st) ==
    LET who == ensure_signed(origin)
    IN  IF ~who.ok THEN [result |-> BadOrigin, st |-> st]
        ELSE IF ~(foo < FooLimit)
        THEN [result |-> InsufficientProposersBalance, st |-> st]
        ELSE [result |-> Ok, st |-> deposit_event(st, Spending(foo))]

\* fn toto(origin, #[pallet::compact] foo: u32) -> DispatchResult
toto(origin, foo, st) ==
    LET who == ensure_signed(origin)
    IN  IF ~who.ok THEN [result |-> BadOrigin, st |-> st]
        ELSE IF ~(foo < FooLimit)
        THEN [result |-> InsufficientProposersBalance, st |-> st]
        ELSE [result |-> Ok, st |-> deposit_event(st, Something(foo))]

\* The `Call::toto` dispatch: the argument is decoded, then `toto` runs on
\* the decoded value; the call's declared weight is reported.
dispatch(origin, payload, st) ==
    LET arg == CompactU32Decode(payload)
    IN  IF ~arg.ok
        THEN [result |-> DecodeError, decoded |-> FALSE, foo |-> 0,
              weight |-> 0, st |-> st]
        ELSE LET r == toto(origin, arg.value, st)
             IN  [result |-> r.result, decoded |-> TRUE, foo |-> arg.value,
                  weight |-> TotoWeight, st |-> r.st]

\* A plausible slip in the hook: housekeeping weight on the first block only.
on_initialize_FirstBlockOnly(n, st) ==
    [weight |-> IF n = 1 THEN 10 ELSE 0, st |-> st]

\* fn on_initialize(_: BlockNumberFor<T>) -> Weight
on_initialize(n, st) == [weight |-> 10, st |-> st]

(* ---------------------------- storage items --------------------------- *)

\* A plausible slip: the value is declared without its default provider.
MyStorageValue_get_NoDefault(sv) == IF sv = None THEN 0 ELSE sv[1]

\* MyStorageValue::get (ValueQuery with OnEmpty = MyDefault)
MyStorageValue_get(sv) == IF sv = None THEN MyDefault ELSE sv[1]

\* MyStorageValue::set / put
MyStorageValue_set(sv, v) == Some(v)

\* MyStorageValue::kill
MyStorageValue_remove(sv) == None

\* Pallet::my_storage(k) (OptionQuery getter of `MyStorage`)
my_storage(sm, k) == IF k \in DOMAIN sm THEN Some(sm[k]) ELSE None

\* MyStorage::insert
MyStorage_insert(sm, k, v) == (k :> v) @@ sm

\* MyStorage::remove
MyStorage_remove(sm, k) == [x \in (DOMAIN sm) \ {k} |-> sm[x]]

(* ------------------------------- state -------------------------------- *)

VARIABLES
    phase,          \* "idle" between blocks, "inBlock" while one executes
    blockNumber,    \* number of the current (or last executed) block
    events,         \* the current block's event log
    myStorageValue, \* Option<Balance>: the stored `MyStorageValue`
    myStorage,      \* the entries of `MyStorage`
    blockWeight,    \* weight consumed so far by the current block
    hookCalls,      \* per block, how often `on_initialize` was invoked
    hookWeight,     \* per block, the weight `on_initialize` returned
    dispatched,     \* the calls dispatched in the current block, in order
    last,           \* the most recent call: its input, outcome and pre-state
    blockStart,     \* the pallet's state when the current block's calls began
    svLast          \* the most recent write to `MyStorageValue`

vars ==
    << phase, blockNumber, events, myStorageValue, myStorage, blockWeight,
       hookCalls, hookWeight, dispatched, last, blockStart, svLast >>

Blocks == 1 .. MaxBlocks

PS == PalletState(events, myStorageValue, myStorage)

NoCall ==
    [op |-> "none", origin |-> [kind |-> "None", who |-> 0], payload |-> << >>,
     decoded |-> FALSE, foo |-> 0, result |-> Ok, weight |-> 0,
     before |-> PalletState(<< >>, None, << >>)]

Init ==
    /\ phase = "idle"
    /\ blockNumber = 0
    /\ events = << >>
    /\ myStorageValue = EmptyStorage.value
    /\ myStorage = EmptyStorage.map
    /\ blockWeight = 0
    /\ hookCalls = [n \in Blocks |-> 0]
    /\ hookWeight = [n \in Blocks |-> 0]
    /\ dispatched = << >>
    /\ last = NoCall
    /\ blockStart = PalletState(<< >>, EmptyStorage.value, EmptyStorage.map)
    /\ svLast = [op |-> "unset", v |-> 0]

(* ------------------------- the block executor ------------------------- *)

\* Block start: the event log of the previous block is dropped, the hook
\* runs and its weight is registered, before any extrinsic is applied.
InitializeBlock ==
    /\ phase = "idle"
    /\ blockNumber < MaxBlocks
    /\ LET n == blockNumber + 1
           h == on_initialize(n, PalletState(<< >>, myStorageValue, myStorage))
       IN  /\ blockNumber' = n
           /\ hookCalls' = [hookCalls EXCEPT ![n] = @ + 1]
           /\ hookWeight' = [hookWeight EXCEPT ![n] = h.weight]
           /\ blockWeight' = h.weight
           /\ events' = h.st.events
           /\ myStorageValue' = h.st.value
           /\ myStorage' = h.st.map
           /\ last' = [NoCall EXCEPT !.op = "on_initialize",
                                     !.weight = h.weight, !.before = PS]
           /\ blockStart' = h.st
    /\ phase' = "inBlock"
    /\ dispatched' = << >>
    /\ UNCHANGED svLast

\* One extrinsic of the block: `toto` with an origin and an argument payload.
\* Whatever the call returns, the block goes on with the next extrinsic.
ApplyExtrinsic(origin, payload) ==
    /\ phase = "inBlock"
    /\ Len(dispatched) < MaxTxs
    /\ LET r == dispatch(origin, payload, PS)
       IN  /\ events' = r.st.events
           /\ myStorageValue' = r.st.value
           /\ myStorage' = r.st.map
           /\ blockWeight' = blockWeight + r.weight
           /\ last' = [op |-> "toto", origin |-> origin, payload |-> payload,
                       decoded |-> r.decoded, foo |-> r.foo,
                       result |-> r.result, weight |-> r.weight,
                       before |-> PS]
           /\ dispatched' =
                Append(dispatched,
                       [origin |-> origin, payload |-> payload,
                        decoded |-> r.decoded, foo |-> r.foo,
                        result |-> r.result,
                        hooksBefore |-> hookCalls[blockNumber],
                        weightBefore |-> blockWeight])
    /\ UNCHANGED << phase, blockNumber, hookCalls, hookWeight, blockStart,
                    svLast >>

\* Block end: the pallet implements no `on_finalize`.
FinalizeBlock ==
    /\ phase = "inBlock"
    /\ phase' = "idle"
    /\ UNCHANGED << blockNumber, events, myStorageValue, myStorage,
                    blockWeight, hookCalls, hookWeight, dispatched, last,
                    blockStart, svLast >>

Next ==
    \/ InitializeBlock
    \/ \E origin \in Origins, payload \in Payloads :
          ApplyExtrinsic(origin, payload)
    \/ FinalizeBlock

Spec == Init /\ [][Next]_vars

(* ----------------------- the storage items' API ----------------------- *)

SetValue(v) ==
    /\ myStorageValue' = MyStorageValue_set(myStorageValue, v)
    /\ svLast' = [op |-> "set", v |-> v]
    /\ UNCHANGED << phase, blockNumber, events, myStorage, blockWeight,
                    hookCalls, hookWeight, dispatched, last, blockStart >>

RemoveValue ==
    /\ myStorageValue' = MyStorageValue_remove(myStorageValue)
    /\ svLast' = [op |-> "remove", v |-> 0]
    /\ UNCHANGED << phase, blockNumber, events, myStorage, blockWeight,
                    hookCalls, hookWeight, dispatched, last, blockStart >>

InsertEntry(k, v) ==
    /\ myStorage' = MyStorage_insert(myStorage, k, v)
    /\ UNCHANGED << phase, blockNumber, events, myStorageValue, blockWeight,
                    hookCalls, hookWeight, dispatched, last, blockStart,
                    svLast >>

RemoveEntry(k) ==
    /\ k \in DOMAIN myStorage
    /\ myStorage' = MyStorage_remove(myStorage, k)
    /\ UNCHANGED << phase, blockNumber, events, myStorageValue, blockWeight,
                    hookCalls, hookWeight, dispatched, last, blockStart,
                    svLast >>

StorageNext ==
    \/ \E v \in Balances : SetValue(v)
    \/ RemoveValue
    \/ \E k \in Keys, v \in Keys : InsertEntry(k, v)
    \/ \E k \in Keys : RemoveEntry(k)

\* The storage items' API, called in any order on the genesis storage.
SpecStorage == Init /\ [][StorageNext]_vars

(* ------------------------------ properties ---------------------------- *)

LastIsToto == last.op = "toto"

StorageOf(st) == << st.value, st.map >>

\* A payload is a compact-encoded u32 exactly when some u32 encodes to it;
\* the candidates are the values its bytes can be read as.
CompactCandidates(payload) ==
    (IF Len(payload) >= 1 THEN {payload[1] \div 4} ELSE {})
        \cup (IF Len(payload) >= 2
              THEN {Shr2(SubSeq(payload, 1, 2))} ELSE {})
        \cup (IF Len(payload) >= 4
              THEN {Shr2(SubSeq(payload, 1, 4))} ELSE {})
        \cup (IF Len(payload) >= 5
              THEN {LeValue(SubSeq(payload, 2, 5))} ELSE {})

IsCompactU32(payload) ==
    \E v \in CompactCandidates(payload) : CompactU32Encode(v) = payload

\* The value a well-formed payload stands for.
ValueOf(payload) ==
    CHOOSE v \in CompactCandidates(payload) : CompactU32Encode(v) = payload

\* C1: every `toto` call from a signed origin with foo < 10 returns success,
\* appends exactly one event Something(foo) to the block's log, and reports
\* weight 0.
C1_SignedSmallFooSucceeds ==
    (/\ LastIsToto
     /\ last.origin.kind = "Signed"
     /\ IsCompactU32(last.payload)
     /\ ValueOf(last.payload) < 10)
        => /\ last.result = "Ok"
           /\ events = last.before.events
                          \o << [variant |-> "Something",
                                 data |-> ValueOf(last.payload)] >>
           /\ last.weight = 0

\* The spec's case: foo = 5, signed, with an event already in the log.
C1_Witness ==
    /\ LastIsToto
    /\ last.origin.kind = "Signed"
    /\ last.payload = CompactU32Encode(5)
    /\ last.result = "Ok"
    /\ Len(last.before.events) = 1
    /\ Len(events) = 2

\* C2: every `toto` call from a signed origin with foo >= 10 returns
\* Error::InsufficientProposersBalance, emits no event and leaves the
\* pallet's storage unchanged.
C2_SignedLargeFooFails ==
    (/\ LastIsToto
     /\ last.origin.kind = "Signed"
     /\ IsCompactU32(last.payload)
     /\ ValueOf(last.payload) >= 10)
        => /\ last.result = "InsufficientProposersBalance"
           /\ events = last.before.events
           /\ StorageOf(PS) = StorageOf(last.before)

\* The spec's case: foo = 15, signed, after a successful call.
C2_Witness ==
    /\ LastIsToto
    /\ last.origin.kind = "Signed"
    /\ last.payload = CompactU32Encode(15)
    /\ last.result = "InsufficientProposersBalance"
    /\ Len(events) = 1

\* C3: for every origin that is not a signed account and every foo, `toto`
\* returns the authorization error, never InsufficientProposersBalance, and
\* the storage and the event log are unchanged.
C3_UnsignedOriginRejected ==
    (/\ LastIsToto
     /\ last.origin.kind # "Signed"
     /\ IsCompactU32(last.payload))
        => /\ last.result = "BadOrigin"
           /\ last.result # "InsufficientProposersBalance"
           /\ events = last.before.events
           /\ StorageOf(PS) = StorageOf(last.before)

\* An unsigned origin with foo = 15, where the guard would fail too.
C3_Witness ==
    /\ LastIsToto
    /\ last.origin.kind = "Root"
    /\ last.payload = CompactU32Encode(15)
    /\ last.result = "BadOrigin"
    /\ Len(events) = 1

\* C4: in every block N, on_initialize(N) is invoked exactly once and before
\* any transaction of the block is dispatched; it returns weight 10 for
\* every block number, and that weight is charged to the block before any
\* transaction runs.
C4_HookOncePerBlock ==
    /\ \A n \in Blocks :
          /\ hookCalls[n] = (IF n <= blockNumber THEN 1 ELSE 0)
          /\ n <= blockNumber => hookWeight[n] = 10
    /\ \A i \in 1 .. Len(dispatched) :
          /\ dispatched[i].hooksBefore = 1
          /\ dispatched[i].weightBefore >= 10
    /\ phase = "inBlock" => blockWeight >= 10

\* A transaction dispatched in the second block.
C4_Witness ==
    /\ blockNumber = 2
    /\ Len(dispatched) >= 1
    /\ hookCalls[1] = 1
    /\ hookCalls[2] = 1

\* C5: `MyStorageValue::get` returns the default 3 while the item is unset;
\* after set(v) it returns v until the next set or remove; after remove it
\* returns the default again.
C5_StorageValueDefault ==
    /\ svLast.op \in {"unset", "remove"}
          => MyStorageValue_get(myStorageValue) = 3
    /\ svLast.op = "set" => MyStorageValue_get(myStorageValue) = svLast.v

\* The item removed after having been set, with entries in the map.
C5_Witness ==
    /\ svLast.op = "remove"
    /\ myStorageValue = None
    /\ DOMAIN myStorage # {}

\* C6: for every payload that is not a compact-encoded u32, the dispatch of
\* `toto` returns the decode error, which is neither the authorization error
\* nor the pallet's own error; no storage is written and no event emitted.
C6_UndecodablePayloadRejected ==
    (LastIsToto /\ ~IsCompactU32(last.payload))
        => /\ last.result = "DecodeError"
           /\ last.result \notin {"BadOrigin", "InsufficientProposersBalance"}
           /\ events = last.before.events
           /\ StorageOf(PS) = StorageOf(last.before)
           /\ last.weight = 0

\* Zero written in the two-byte mode, from a signed origin.
C6_Witness ==
    /\ LastIsToto
    /\ last.origin.kind = "Signed"
    /\ last.payload = << 1, 0 >>
    /\ last.result = "DecodeError"

\* The calls of `calls`, one after another, from the state `st`.
RECURSIVE RunBlock(_, _)
RunBlock(calls, st) ==
    IF Len(calls) = 0 THEN [results |-> << >>, st |-> st]
    ELSE LET r == dispatch(calls[1].origin, calls[1].payload, st)
             rest == RunBlock(Tail(calls), r.st)
         IN  [results |-> << r.result >> \o rest.results, st |-> rest.st]

Without(seq, i) == SubSeq(seq, 1, i - 1) \o SubSeq(seq, i + 1, Len(seq))

ResultsOf(calls) == [i \in 1 .. Len(calls) |-> calls[i].result]

\* C7: a failing call aborts only itself: the block goes on, and the results
\* and events of the other calls of the block are those of the block
\* without the failing call.
C7_FailureAbortsOnlyItself ==
    \A i \in 1 .. Len(dispatched) :
        dispatched[i].result # "Ok"
            => LET others == Without(dispatched, i)
                   run == RunBlock(others, blockStart)
               IN  /\ run.results = ResultsOf(others)
                   /\ run.st.events = events

\* A failing call followed by a successful one in the same block.
C7_Witness ==
    /\ Len(dispatched) = 2
    /\ dispatched[1].result # "Ok"
    /\ dispatched[2].result = "Ok"
    /\ Len(events) = 1

\* C9: neither `toto` nor `on_initialize` writes storage: after any blocks
\* and calls from the empty genesis storage, `MyStorageValue` reads 3 and
\* `my_storage(k)` is None for every key.
C9_NoStorageWrites ==
    /\ MyStorageValue_get(myStorageValue) = 3
    /\ DOMAIN myStorage = {}
    /\ \A k \in Keys \cup {5, 9, 10, 15} : my_storage(myStorage, k) = << >>

\* The second block, after a successful and a failing call.
C9_Witness ==
    /\ blockNumber = 2
    /\ Len(dispatched) = 2
    /\ dispatched[1].result = "Ok"
    /\ dispatched[2].result = "InsufficientProposersBalance"

\* The events the successful calls of `calls` stand for, in order.
RECURSIVE ExpectedEvents(_)
ExpectedEvents(calls) ==
    IF Len(calls) = 0 THEN << >>
    ELSE (IF calls[1].result = "Ok"
          THEN << [variant |-> "Something",
                   data |-> ValueOf(calls[1].payload)] >>
          ELSE << >>)
         \o ExpectedEvents(Tail(calls))

IsPrefix(s, t) == Len(s) <= Len(t) /\ SubSeq(t, 1, Len(s)) = s

EventLogShape ==
    /\ events = ExpectedEvents(dispatched)
    /\ \A i \in 1 .. Len(events) :
          /\ events[i].variant = "Something"
          /\ events[i].variant \notin {"Proposed", "Spending"}
          /\ events[i].data < 10
    /\ last.op = "on_initialize" => events = << >>

EventLogAppendOnly ==
    Len(dispatched') > Len(dispatched) => IsPrefix(events, events')

\* C10: the block's log holds exactly one Something(foo) per successful
\* `toto` call of the block, in dispatch order, each with foo < 10; no
\* Proposed or Spending is emitted, on_initialize emits nothing, and a call
\* never changes or removes an entry appended before it.
C10_EventLogExact == [] EventLogShape /\ [][EventLogAppendOnly]_vars

\* Two successful calls in one block, the second after the first's event.
C10_Witness ==
    /\ Len(dispatched) = 2
    /\ dispatched[1].result = "Ok"
    /\ dispatched[2].result = "Ok"
    /\ Len(events) = 2
    /\ events[1].data # events[2].data

====
